---- MODULE Spec2Model ----
(***************************************************************************)
(* A model of code/student_code.py:                                        *)
(*   - CustomConv2DFunction.forward / backward (unfold, matmul, fold)      *)
(*   - PGDAttack.perturb (projected gradient descent in an L-inf ball)     *)
(* Tensor values are exact integers (fixed point); indices are 0-based as  *)
(* in the source.                                                          *)
(***************************************************************************)
EXTENDS Integers, Sequences, FiniteSets, TLC

(***************************************************************************)
(* Bounds of the model.                                                    *)
(***************************************************************************)
MaxBatch == 2
MaxChan == 2
MaxDim == 3
MaxK == 2
MaxStride == 2
MaxPad == 1
MaxSeed == 1
MaxElems == 16
MaxVal == 1
MaxEps == 2
MaxStepSize == 2
MaxSteps == 3
MaxGrad == 2

VARIABLES
  input_feats,   \* forward argument: tensor (N, C_i, H, W)
  weight,        \* forward argument: tensor (C_o, C_i', KH, KW)
  bias,          \* forward argument: [none, at] (C_o) or None
  stride,        \* forward argument: [is_int, val]
  padding,       \* forward argument: [is_int, val]
  bias_needs_grad, \* ctx.needs_input_grad[2]
  ctx,           \* the autograd context of the call
  output,        \* what forward returned
  conv_pc,       \* "ready" | "forwarded" | "failed" | "backwarded"
  conv_err,      \* "" | "AssertionError" | "AttributeError" | "RuntimeError"
  performed,     \* tensor operations forward has run
  grad_output,   \* backward argument
  grads,         \* what backward returned: [grad_input, grad_weight, grad_bias]
  input,         \* perturb argument: the original input, one value per element
  input_autograd, \* [is_leaf, requires_grad] of the caller's input tensor
  num_steps,     \* self.num_steps
  step_size,     \* self.step_size
  epsilon,       \* self.epsilon
  x_adv,         \* the candidate
  x_adv_requires_grad, \* x_adv.requires_grad
  x_adv_shares_input, \* whether x_adv and input share their storage
  x_adv_grad,    \* x_adv.grad, the attribute of the current candidate tensor
  backward_grad, \* the gradient the latest loss.backward() computed at the candidate
  last_grad,     \* x_adv.grad as line 709 read it in the latest step
  steps_done,    \* iterations of the loop completed or aborted
  model_evals,   \* calls of model(x_adv)
  model,         \* the attacked nn.Module: [training, params, params_require_grad, param_grad]
  pgd_pc,        \* "call" | "loop" | "done" | "error"
  pgd_err,       \* "" | the RuntimeError raised
  net_pc,        \* SimpleNet.forward: "call" | "attack" | "returned" | "raised"
  original_mode, \* forward's local original_mode
  training_at_call, \* self.training when forward was called
  nested_attacks, \* attacks started by the forward calls perturb makes
  net_x,         \* the tensor forward computed its output from
  output_mode    \* self.training when forward computed its output

pgdVars == <<input, input_autograd, num_steps, step_size, epsilon, x_adv,
             x_adv_requires_grad, x_adv_shares_input, x_adv_grad, backward_grad,
             last_grad, steps_done, model_evals, model, pgd_pc, pgd_err>>

convVars == <<input_feats, weight, bias, stride, padding, bias_needs_grad, ctx,
              output, conv_pc, conv_err, performed, grad_output, grads>>

netVars == <<net_pc, original_mode, training_at_call, nested_attacks, net_x, output_mode>>

vars == <<convVars, pgdVars, netVars>>

(***************************************************************************)
(* Tensors: [dims |-> <<d1, ..>>, at |-> function of index tuples].        *)
(***************************************************************************)
NoTensor == [dims |-> <<>>, at |-> <<>>]

Idx(n) == 0 .. (n - 1)

\* f[lo] + ... + f[hi - 1]
RECURSIVE SumRange(_, _, _)
SumRange(f, lo, hi) ==
  IF hi <= lo THEN 0
  ELSE IF hi = lo + 1 THEN f[lo]
  ELSE LET mid == (lo + hi) \div 2
       IN SumRange(f, lo, mid) + SumRange(f, mid, hi)

SumTo(f, n) == SumRange(f, 0, n)

\* Small signed test values, different at neighbouring positions.
Gen(seed, i) == (((i + 1) * (i + seed + 2) + seed) % 5) - 2

GenTensor4(d, seed) ==
  [dims |-> d,
   at |-> [n \in Idx(d[1]), c \in Idx(d[2]), y \in Idx(d[3]), x \in Idx(d[4]) |->
             Gen(seed, ((n * d[2] + c) * d[3] + y) * d[4] + x)]]

GenBias(cout, seed) ==
  [none |-> FALSE, at |-> [c \in Idx(cout) |-> Gen(seed + 1, c + 3)]]

NoneBias == [none |-> TRUE, at |-> <<>>]

\* torch.nn.functional.unfold(t, k, padding=p, stride=s): (N, C*k*k, L)
UnfoldBlocks(size, k, p, s) == ((size + 2 * p - k) \div s) + 1

PaddedAt(t, n, c, y, x) ==
  IF y >= 0 /\ y < t.dims[3] /\ x >= 0 /\ x < t.dims[4] THEN t.at[n, c, y, x] ELSE 0

\* a patch row order (channel, kw, kh) instead of (channel, kh, kw)
UnfoldKernelAxesSwapped(t, k, p, s) ==
  LET lh == UnfoldBlocks(t.dims[3], k, p, s)
      lw == UnfoldBlocks(t.dims[4], k, p, s)
  IN [dims |-> <<t.dims[1], t.dims[2] * k * k, lh * lw>>,
      at |-> [n \in Idx(t.dims[1]), r \in Idx(t.dims[2] * k * k), l \in Idx(lh * lw) |->
                PaddedAt(t, n, r \div (k * k),
                         (l \div lw) * s + (r % k) - p,
                         (l % lw) * s + ((r % (k * k)) \div k) - p)]]

Unfold(t, k, p, s) ==
  LET lh == UnfoldBlocks(t.dims[3], k, p, s)
      lw == UnfoldBlocks(t.dims[4], k, p, s)
  IN [dims |-> <<t.dims[1], t.dims[2] * k * k, lh * lw>>,
      at |-> [n \in Idx(t.dims[1]), r \in Idx(t.dims[2] * k * k), l \in Idx(lh * lw) |->
                PaddedAt(t, n, r \div (k * k),
                         (l \div lw) * s + ((r % (k * k)) \div k) - p,
                         (l % lw) * s + (r % k) - p)]]

\* torch.flatten(w, start_dim=1): (C_o, C_i*KH*KW), row-major
Flatten1(w) ==
  LET ci == w.dims[2]
      kh == w.dims[3]
      kw == w.dims[4]
  IN [dims |-> <<w.dims[1], ci * kh * kw>>,
      at |-> [co \in Idx(w.dims[1]), r \in Idx(ci * kh * kw) |->
                w.at[co, r \div (kh * kw), (r % (kh * kw)) \div kw, r % kw]]]

\* torch.matmul of a matrix (A, R) with a batch (N, R, L): (N, A, L)
MatMulBroadcast(m, t) ==
  [dims |-> <<t.dims[1], m.dims[1], t.dims[3]>>,
   at |-> [n \in Idx(t.dims[1]), a \in Idx(m.dims[1]), l \in Idx(t.dims[3]) |->
             SumTo([r \in Idx(m.dims[2]) |-> m.at[a, r] * t.at[n, r, l]], m.dims[2])]]

\* torch.matmul of two batches (N, A, L) and (N, L, R): (N, A, R)
MatMulBatched(t, u) ==
  [dims |-> <<t.dims[1], t.dims[2], u.dims[3]>>,
   at |-> [n \in Idx(t.dims[1]), a \in Idx(t.dims[2]), r \in Idx(u.dims[3]) |->
             SumTo([l \in Idx(t.dims[3]) |-> t.at[n, a, l] * u.at[n, l, r]], t.dims[3])]]

\* t.permute([0, 2, 1])
Permute021(t) ==
  [dims |-> <<t.dims[1], t.dims[3], t.dims[2]>>,
   at |-> [n \in Idx(t.dims[1]), l \in Idx(t.dims[3]), r \in Idx(t.dims[2]) |-> t.at[n, r, l]]]

\* m.T
Transpose(m) ==
  [dims |-> <<m.dims[2], m.dims[1]>>,
   at |-> [r \in Idx(m.dims[2]), a \in Idx(m.dims[1]) |-> m.at[a, r]]]

\* torch.nn.functional.fold(t, out, k, padding=p, stride=s) accepts t of shape
\* (N, C*k*k, L) only when L is the number of blocks of out.
FoldOk(t, out, k, p, s) ==
  /\ out[1] + 2 * p - k >= 0
  /\ out[2] + 2 * p - k >= 0
  /\ t.dims[2] % (k * k) = 0
  /\ t.dims[3] = UnfoldBlocks(out[1], k, p, s) * UnfoldBlocks(out[2], k, p, s)

\* a fold that overwrites: the last block entry landing at (y, x) wins
FoldAtOverwrite(t, n, c, y, x, lw, k, p, s) ==
  LET hits == {q \in Idx(k * k * t.dims[3]) :
                 /\ ((q % t.dims[3]) \div lw) * s + ((q \div t.dims[3]) \div k) - p = y
                 /\ ((q % t.dims[3]) % lw) * s + ((q \div t.dims[3]) % k) - p = x}
  IN IF hits = {} THEN 0
     ELSE LET q == CHOOSE h \in hits : \A h2 \in hits : h2 <= h
          IN t.at[n, c * k * k + (q \div t.dims[3]), q % t.dims[3]]

\* the value fold writes at (y, x): the sum of every block entry that lands there
FoldAt(t, n, c, y, x, lw, k, p, s) ==
  SumTo([q \in Idx(k * k * t.dims[3]) |->
           LET r == q \div t.dims[3]
               l == q % t.dims[3]
           IN IF /\ (l \div lw) * s + (r \div k) - p = y
                 /\ (l % lw) * s + (r % k) - p = x
              THEN t.at[n, c * k * k + r, l]
              ELSE 0],
        k * k * t.dims[3])

Fold(t, out, k, p, s) ==
  LET lw == UnfoldBlocks(out[2], k, p, s)
      ch == t.dims[2] \div (k * k)
  IN [dims |-> <<t.dims[1], ch, out[1], out[2]>>,
      at |-> [n \in Idx(t.dims[1]), c \in Idx(ch), y \in Idx(out[1]), x \in Idx(out[2]) |->
                FoldAt(t, n, c, y, x, lw, k, p, s)]]

\* the first batch element only, instead of the sum over the batch
Sum0FirstOnly(t) ==
  [dims |-> <<t.dims[2], t.dims[3]>>,
   at |-> [a \in Idx(t.dims[2]), r \in Idx(t.dims[3]) |-> t.at[0, a, r]]]

\* sum(0) of a batch (N, A, R): (A, R)
Sum0(t) ==
  [dims |-> <<t.dims[2], t.dims[3]>>,
   at |-> [a \in Idx(t.dims[2]), r \in Idx(t.dims[3]) |->
             SumTo([n \in Idx(t.dims[1]) |-> t.at[n, a, r]], t.dims[1])]]

\* torch.unflatten(m, 1, (c, k, k)): (A, c, k, k), row-major
Unflatten1(m, c, k) ==
  [dims |-> <<m.dims[1], c, k, k>>,
   at |-> [a \in Idx(m.dims[1]), ci \in Idx(c), kh \in Idx(k), kw \in Idx(k) |->
             m.at[a, (ci * k + kh) * k + kw]]]

\* t.sum((0, 2, 3)) of (N, C, H, W): (C)
Sum023(t) ==
  [c \in Idx(t.dims[2]) |->
     SumTo([q \in Idx(t.dims[1] * t.dims[3] * t.dims[4]) |->
              t.at[q \div (t.dims[3] * t.dims[4]),
                   c,
                   (q % (t.dims[3] * t.dims[4])) \div t.dims[4],
                   q % t.dims[4]]],
           t.dims[1] * t.dims[3] * t.dims[4])]

\* output += bias.view(1, C_o, 1, 1)
AddBias(t, b) ==
  [dims |-> t.dims,
   at |-> [n \in Idx(t.dims[1]), c \in Idx(t.dims[2]), y \in Idx(t.dims[3]), x \in Idx(t.dims[4]) |->
             t.at[n, c, y, x] + b.at[c]]]

(***************************************************************************)
(* CustomConv2DFunction.forward                                            *)
(***************************************************************************)
EmptyCtx ==
  [attrs |-> {}, stride |-> 0, padding |-> 0, input_height |-> 0, input_width |-> 0,
   saved |-> FALSE, unfolded_feats |-> NoTensor, weight |-> NoTensor, bias |-> NoneBias]

\* lines 49-52: the sanity checks
SanityOk(inp, w, s, p) ==
  /\ w.dims[3] = w.dims[4]
  /\ inp.dims[2] = w.dims[2]
  /\ s.is_int /\ s.val > 0
  /\ p.is_int /\ p.val >= 0

\* lines 56-59: save the conv params
SaveParams(c, inp, s, p) ==
  [c EXCEPT !.attrs = {"stride", "padding", "input_height", "input_width"},
            !.stride = s.val, !.padding = p.val,
            !.input_height = inp.dims[3], !.input_width = inp.dims[4]]

\* the check of the height alone
ValidConvHeightOnly(inp, w, p) ==
  w.dims[3] <= inp.dims[3] + 2 * p.val

\* lines 62-63: make sure this is a valid convolution
ValidConv(inp, w, p) ==
  /\ w.dims[3] <= inp.dims[3] + 2 * p.val
  /\ w.dims[3] <= inp.dims[4] + 2 * p.val

\* the size without the last block
OutputShapeShort(h, w, k, p, s) ==
  <<(h + 2 * p - k) \div s, (w + 2 * p - k) \div s>>

\* lines 68-71
OutputShape(h, w, k, p, s) ==
  <<(h + 2 * p - k + s) \div s, (w + 2 * p - k + s) \div s>>

\* line 92
SaveForBackward(c, u, w, b) ==
  [c EXCEPT !.saved = TRUE, !.unfolded_feats = u, !.weight = w, !.bias = b]

Raise(err, c, ops) ==
  /\ conv_pc' = "failed"
  /\ conv_err' = err
  /\ ctx' = c
  /\ performed' = ops
  /\ output' = NoTensor

Forward ==
  /\ conv_pc = "ready"
  /\ IF ~SanityOk(input_feats, weight, stride, padding)
     THEN Raise("AssertionError", ctx, {})
     ELSE
       LET c1 == SaveParams(ctx, input_feats, stride, padding)
           k == weight.dims[3]
           p == padding.val
           s == stride.val
       IN IF ~ValidConv(input_feats, weight, padding)
          THEN Raise("AssertionError", c1, {})
          ELSE
            LET output_shape == OutputShape(input_feats.dims[3], input_feats.dims[4], k, p, s)
                unfolded_feats == Unfold(input_feats, k, p, s)
                unfolded_kernel == Flatten1(weight)
                unfolded_output == MatMulBroadcast(unfolded_kernel, unfolded_feats)
            IN IF ~FoldOk(unfolded_output, output_shape, 1, 0, 1)
               THEN Raise("RuntimeError", c1, {"unfold", "flatten", "matmul"})
               ELSE IF bias.none
               THEN \* line 89: bias.view on None
                    Raise("AttributeError", c1, {"unfold", "flatten", "matmul", "fold"})
               ELSE
                 /\ output' = AddBias(Fold(unfolded_output, output_shape, 1, 0, 1), bias)
                 /\ ctx' = SaveForBackward(c1, unfolded_feats, weight, bias)
                 /\ performed' = {"unfold", "flatten", "matmul", "fold", "add_bias"}
                 /\ conv_pc' = "forwarded"
                 /\ conv_err' = ""
  /\ UNCHANGED <<input_feats, weight, bias, stride, padding, bias_needs_grad,
                 grad_output, grads>>
  /\ UNCHANGED pgdVars
  /\ UNCHANGED netVars

(***************************************************************************)
(* CustomConv2DFunction.backward                                           *)
(***************************************************************************)
NoGrads == [grad_input |-> NoTensor, grad_weight |-> NoTensor, grad_bias |-> NoneBias]

\* lines 131-142
GradWeight(unfolded_grad_output, unfolded_feats, kernel_size) ==
  LET folded_grad_weight == MatMulBatched(unfolded_grad_output, Permute021(unfolded_feats))
      grad_weight == Sum0(folded_grad_weight)
  IN Unflatten1(grad_weight, grad_weight.dims[2] \div (kernel_size * kernel_size), kernel_size)

\* lines 145-153
GradInput(unfolded_grad_output, w, c) ==
  LET unfolded_weight == Flatten1(w)
      folded_grad_input == MatMulBroadcast(Transpose(unfolded_weight), unfolded_grad_output)
  IN Fold(folded_grad_input, <<c.input_height, c.input_width>>, w.dims[3], c.padding, c.stride)

\* lines 159-161
GradBias(b, needs, g) ==
  IF ~b.none /\ needs THEN [none |-> FALSE, at |-> Sum023(g)] ELSE NoneBias

Backward ==
  /\ conv_pc = "forwarded"
  /\ \E seed \in 0 .. MaxSeed :
       LET g == GenTensor4(output.dims, seed + 2)
           unfolded_grad_output == Unfold(g, 1, 0, 1)
       IN /\ grad_output' = g
          /\ grads' = [grad_input |-> GradInput(unfolded_grad_output, ctx.weight, ctx),
                       grad_weight |-> GradWeight(unfolded_grad_output, ctx.unfolded_feats,
                                                  ctx.weight.dims[3]),
                       grad_bias |-> GradBias(ctx.bias, bias_needs_grad, g)]
  /\ conv_pc' = "backwarded"
  /\ UNCHANGED <<input_feats, weight, bias, stride, padding, bias_needs_grad, ctx,
                 output, conv_err, performed>>
  /\ UNCHANGED pgdVars
  /\ UNCHANGED netVars

(***************************************************************************)
(* PGDAttack.perturb                                                       *)
(***************************************************************************)
\* the elements of the input tensor the model follows
Elems == {0, 1}

NoGrad == [none |-> TRUE, at |-> [e \in Elems |-> 0]]

Max(a, b) == IF a >= b THEN a ELSE b
Min(a, b) == IF a <= b THEN a ELSE b

\* a step along the gradient itself instead of its sign
SignIdentity(v) == v

\* torch.sign
Sign(v) == IF v > 0 THEN 1 ELSE IF v < 0 THEN -1 ELSE 0

\* a clamp from above only
ClampUpperOnly(v, lo, hi) == Min(v, hi)

\* torch.clamp(v, lo, hi) = min(max(v, lo), hi)
Clamp(v, lo, hi) == Min(Max(v, lo), hi)

\* a candidate that starts from zeros instead of the input
CloneZeros(t) == [e \in Elems |-> 0]

\* line 689: input.clone().detach()
CloneDetach(t) == [e \in Elems |-> t[e]]

\* clone() allocates new storage, and detach() shares the storage of the clone
CloneSharesStorage == FALSE

\* lines 714-720: x_adv + ..., torch.clamp(...) allocate; detach() shares the
\* storage of the clamp's result
UpdateSharesStorage == FALSE

\* a check that takes an all-zero gradient for a missing one
GradIsNoneOrZero(g) == g.none \/ \A e \in Elems : g.at[e] = 0

\* line 709
GradIsNone(g) == g.none

\* lines 713-717
Update(x, g, orig, a, eps) ==
  [e \in Elems |-> Clamp(x[e] + a * Sign(g.at[e]), orig[e] - eps, orig[e] + eps)]

\* what loss.backward() can leave in x_adv.grad: nothing, or any finite gradient
GradOutcomes ==
  {NoGrad} \cup {[none |-> FALSE, at |-> g] : g \in [Elems -> (-MaxGrad) .. MaxGrad]}

\* line 706: backward adds the gradient it computed to the .grad of the leaf
AccumulateGrad(old, g) ==
  IF g.none THEN old
  ELSE IF old.none THEN g
  ELSE [none |-> FALSE, at |-> [e \in Elems |-> old.at[e] + g.at[e]]]

\* an update in place, which leaves the gradient of the step on the candidate
KeptTensorGrad(g) == g

\* line 714: x_adv + ... is a new tensor, and the .grad of a new tensor is None
FreshTensorGrad(g) == NoGrad

\* line 705: model.zero_grad()
ZeroGrad(m) == [m EXCEPT !.param_grad = "cleared"]

\* line 706: loss.backward() accumulates into the .grad of every parameter
\* that requires grad
BackwardIntoParams(m) ==
  IF m.params_require_grad THEN [m EXCEPT !.param_grad = "attack"] ELSE m

\* line 699 calls the model's forward, and line 284 of that forward starts an
\* attack when the model is in training mode
StartsAttack(m) == m.training

\* lines 689-691
PerturbEnter ==
  /\ pgd_pc = "call"
  /\ x_adv' = CloneDetach(input)
  /\ x_adv_shares_input' = CloneSharesStorage
  /\ IF ~input_autograd.is_leaf
     THEN \* line 690: requires_grad of a non-leaf tensor cannot be cleared
          /\ pgd_pc' = "error"
          /\ pgd_err' = "RuntimeError: requires_grad of a non-leaf"
          /\ x_adv_requires_grad' = FALSE
          /\ UNCHANGED input_autograd
     ELSE /\ input_autograd' = [input_autograd EXCEPT !.requires_grad = FALSE]
          /\ x_adv_requires_grad' = TRUE
          /\ pgd_pc' = "loop"
          /\ UNCHANGED pgd_err
  /\ x_adv_grad' = NoGrad
  /\ UNCHANGED <<input, num_steps, step_size, epsilon, backward_grad, last_grad, steps_done,
                 model_evals, model>>
  /\ UNCHANGED netVars
  /\ UNCHANGED convVars

\* lines 694-721: one iteration of the loop
Step ==
  /\ pgd_pc = "loop"
  /\ steps_done < num_steps
  /\ \E g \in GradOutcomes :
       /\ backward_grad' = g
       /\ last_grad' = AccumulateGrad(x_adv_grad, g)
       /\ IF GradIsNone(AccumulateGrad(x_adv_grad, g))
          THEN /\ pgd_pc' = "error"
               /\ pgd_err' = IF model.params_require_grad
                              THEN "RuntimeError: Gradient for x_adv is None"
                              ELSE "RuntimeError: loss does not require grad"
               /\ x_adv_grad' = AccumulateGrad(x_adv_grad, g)
               /\ UNCHANGED <<x_adv, x_adv_requires_grad, x_adv_shares_input>>
          ELSE /\ x_adv' = Update(x_adv, AccumulateGrad(x_adv_grad, g), input,
                                  step_size, epsilon)
               /\ x_adv_grad' = FreshTensorGrad(AccumulateGrad(x_adv_grad, g))
               /\ x_adv_shares_input' = UpdateSharesStorage
               /\ x_adv_requires_grad' = TRUE
               /\ UNCHANGED <<pgd_pc, pgd_err>>
  /\ model_evals' = model_evals + 1
  /\ nested_attacks' = nested_attacks + (IF StartsAttack(model) THEN 1 ELSE 0)
  /\ model' = BackwardIntoParams(ZeroGrad(model))
  /\ steps_done' = steps_done + 1
  /\ UNCHANGED <<input, input_autograd, num_steps, step_size, epsilon>>
  /\ UNCHANGED <<net_pc, original_mode, training_at_call, net_x, output_mode>>
  /\ UNCHANGED convVars

\* line 724
Return ==
  /\ pgd_pc = "loop"
  /\ steps_done = num_steps
  /\ pgd_pc' = "done"
  /\ UNCHANGED <<input, input_autograd, num_steps, step_size, epsilon, x_adv,
                 x_adv_requires_grad, x_adv_shares_input, x_adv_grad, backward_grad,
                 last_grad, steps_done, model_evals, model, pgd_err>>
  /\ UNCHANGED netVars
  /\ UNCHANGED convVars

\* the models perturb is called with: trainable (with or without gradients
\* left by the caller's own backward) or frozen, in evaluation mode
ModelStates ==
  {[training |-> FALSE, params |-> "theta", params_require_grad |-> TRUE, param_grad |-> "prior"],
   [training |-> FALSE, params |-> "theta", params_require_grad |-> TRUE, param_grad |-> "none"],
   [training |-> FALSE, params |-> "theta", params_require_grad |-> FALSE, param_grad |-> "none"]}

\* a tensor is a leaf or, being the result of an operation, requires grad
AutogradStates ==
  {[is_leaf |-> TRUE, requires_grad |-> FALSE],
   [is_leaf |-> TRUE, requires_grad |-> TRUE],
   [is_leaf |-> FALSE, requires_grad |-> TRUE]}

PgdInit ==
  /\ input \in [Elems -> 0 .. MaxVal]
  /\ input_autograd \in AutogradStates
  /\ num_steps \in 0 .. MaxSteps
  /\ step_size \in -1 .. MaxStepSize
  /\ epsilon \in 0 .. MaxEps
  /\ x_adv = [e \in Elems |-> 0]
  /\ x_adv_requires_grad = FALSE
  /\ x_adv_shares_input = FALSE
  /\ x_adv_grad = NoGrad
  /\ backward_grad = NoGrad
  /\ last_grad = NoGrad
  /\ steps_done = 0
  /\ model_evals = 0
  /\ model \in ModelStates
  /\ pgd_pc = "call"
  /\ pgd_err = ""

\* no perturb call is in progress
PgdParked ==
  /\ input = [e \in Elems |-> 0]
  /\ input_autograd = [is_leaf |-> TRUE, requires_grad |-> FALSE]
  /\ num_steps = 0
  /\ step_size = 0
  /\ epsilon = 0
  /\ x_adv = [e \in Elems |-> 0]
  /\ x_adv_requires_grad = FALSE
  /\ x_adv_shares_input = FALSE
  /\ x_adv_grad = NoGrad
  /\ backward_grad = NoGrad
  /\ last_grad = NoGrad
  /\ steps_done = 0
  /\ model_evals = 0
  /\ model = [training |-> FALSE, params |-> "theta", params_require_grad |-> TRUE,
              param_grad |-> "none"]
  /\ pgd_pc = "parked"
  /\ pgd_err = ""

(***************************************************************************)
(* SimpleNet.forward (lines 279-292) around the attack built at line 266   *)
(***************************************************************************)
\* lines 266, 656: PGDAttack(nn.CrossEntropyLoss(), num_steps=10) with the
\* defaults step_size=0.01 and epsilon=0.1, in units of 0.01
AttackNumSteps == 10
AttackStepSize == 1
AttackEpsilon == 10

\* a forward that leaves the mode as it is
KeepMode(m) == m

\* line 285: self.eval()
EvalMode(m) == [m EXCEPT !.training = FALSE]

\* line 287: self.train(original_mode)
TrainMode(m, mode) == [m EXCEPT !.training = mode]

\* lines 283-286 up to the call of perturb; in evaluation mode lines 283-284
\* and 288-292, the whole call
NetEnter ==
  /\ net_pc = "call"
  /\ original_mode' = model.training
  /\ IF model.training
     THEN /\ model' = EvalMode(model)
          /\ pgd_pc' = "call"
          /\ net_pc' = "attack"
          /\ UNCHANGED <<net_x, output_mode>>
     ELSE /\ net_x' = input
          /\ output_mode' = model.training
          /\ net_pc' = "returned"
          /\ UNCHANGED <<model, pgd_pc>>
  /\ UNCHANGED <<input, input_autograd, num_steps, step_size, epsilon, x_adv,
                 x_adv_requires_grad, x_adv_shares_input, x_adv_grad, backward_grad,
                 last_grad, steps_done, model_evals, pgd_err>>
  /\ UNCHANGED <<training_at_call, nested_attacks>>
  /\ UNCHANGED convVars

\* perturb returned: the assignment of line 286, then lines 287-292
NetResume ==
  /\ net_pc = "attack"
  /\ pgd_pc = "done"
  /\ net_x' = x_adv
  /\ model' = TrainMode(model, original_mode)
  /\ output_mode' = TrainMode(model, original_mode).training
  /\ net_pc' = "returned"
  /\ UNCHANGED <<input, input_autograd, num_steps, step_size, epsilon, x_adv,
                 x_adv_requires_grad, x_adv_shares_input, x_adv_grad, backward_grad,
                 last_grad, steps_done, model_evals, pgd_pc, pgd_err>>
  /\ UNCHANGED <<original_mode, training_at_call, nested_attacks>>
  /\ UNCHANGED convVars

\* perturb raised: nothing catches the exception, line 287 does not run
NetRaise ==
  /\ net_pc = "attack"
  /\ pgd_pc = "error"
  /\ net_pc' = "raised"
  /\ UNCHANGED pgdVars
  /\ UNCHANGED <<original_mode, training_at_call, nested_attacks, net_x, output_mode>>
  /\ UNCHANGED convVars

\* a SimpleNet with trainable parameters, in either mode, its attack as built
\* at line 266, and one input batch x
NetInit ==
  /\ input = [e \in Elems |-> IF e = 0 THEN 0 ELSE MaxVal]
  /\ input_autograd \in AutogradStates
  /\ num_steps = AttackNumSteps
  /\ step_size = AttackStepSize
  /\ epsilon = AttackEpsilon
  /\ x_adv = [e \in Elems |-> 0]
  /\ x_adv_requires_grad = FALSE
  /\ x_adv_shares_input = FALSE
  /\ x_adv_grad = NoGrad
  /\ backward_grad = NoGrad
  /\ last_grad = NoGrad
  /\ steps_done = 0
  /\ model_evals = 0
  /\ model \in {[training |-> t, params |-> "theta", params_require_grad |-> TRUE,
                  param_grad |-> "none"] : t \in BOOLEAN}
  /\ pgd_pc = "parked"
  /\ pgd_err = ""
  /\ net_pc = "call"
  /\ original_mode = FALSE
  /\ training_at_call = model.training
  /\ nested_attacks = 0
  /\ net_x = [e \in Elems |-> 0]
  /\ output_mode = FALSE

\* no forward call is in progress
NetParked ==
  /\ net_pc = "parked"
  /\ original_mode = FALSE
  /\ training_at_call = FALSE
  /\ nested_attacks = 0
  /\ net_x = [e \in Elems |-> 0]
  /\ output_mode = FALSE

(***************************************************************************)
(* The calls the model makes: every argument combination within the bounds *)
(***************************************************************************)
IntArg(v) == [is_int |-> TRUE, val |-> v]
FloatArg(v) == [is_int |-> FALSE, val |-> v]

StrideArgs == {IntArg(v) : v \in -1 .. MaxStride} \cup {FloatArg(MaxStride)}
PaddingArgs == {IntArg(v) : v \in -1 .. MaxPad} \cup {FloatArg(MaxPad)}

ConvInit ==
  \E n \in 1 .. MaxBatch, ci \in 1 .. MaxChan, ciw \in 1 .. MaxChan, co \in 1 .. MaxChan,
     h \in 1 .. MaxDim, w \in 1 .. MaxDim, kh \in 1 .. MaxK, kw \in 1 .. MaxK,
     s \in StrideArgs, p \in PaddingArgs, b \in BOOLEAN, bn \in BOOLEAN,
     seed \in 0 .. MaxSeed :
    /\ n * ci * h * w <= MaxElems
    /\ co * ciw * kh * kw <= MaxElems
    /\ (s.val > 0 /\ kh <= h + 2 * p.val /\ kh <= w + 2 * p.val) =>
         n * co * UnfoldBlocks(h, kh, p.val, s.val) * UnfoldBlocks(w, kh, p.val, s.val) <= MaxElems
    /\ bn => b
    \* a call the sanity checks reject is made once per shape, not once per content
    /\ (~(kh = kw /\ ci = ciw /\ s.is_int /\ s.val > 0 /\ p.is_int /\ p.val >= 0))
          => (n = 1 /\ co = 1 /\ seed = 0 /\ b /\ bn)
    /\ input_feats = GenTensor4(<<n, ci, h, w>>, seed)
    /\ weight = GenTensor4(<<co, ciw, kh, kw>>, seed + 1)
    /\ bias = IF b THEN GenBias(co, seed) ELSE NoneBias
    /\ stride = s
    /\ padding = p
    /\ bias_needs_grad = bn
    /\ ctx = EmptyCtx
    /\ output = NoTensor
    /\ conv_pc = "ready"
    /\ conv_err = ""
    /\ performed = {}
    /\ grad_output = NoTensor
    /\ grads = NoGrads

ConvNext == Forward \/ Backward


InitConv == ConvInit /\ PgdParked /\ NetParked

SpecConv == InitConv /\ [][ConvNext]_vars

\* no convolution call is in progress
ConvParked ==
  /\ input_feats = NoTensor
  /\ weight = NoTensor
  /\ bias = NoneBias
  /\ stride = IntArg(1)
  /\ padding = IntArg(0)
  /\ bias_needs_grad = FALSE
  /\ ctx = EmptyCtx
  /\ output = NoTensor
  /\ conv_pc = "parked"
  /\ conv_err = ""
  /\ performed = {}
  /\ grad_output = NoTensor
  /\ grads = NoGrads

PgdNext == PerturbEnter \/ Step \/ Return

InitPGD == PgdInit /\ ConvParked /\ NetParked

SpecPGD == InitPGD /\ [][PgdNext]_vars

\* one input tensor: perturb's control flow never reads the values of input
InitPGDOneInput ==
  /\ InitPGD
  /\ input = [e \in Elems |-> IF e = 0 THEN 0 ELSE MaxVal]

\* perturb is straight-line code around a counted loop: once called it keeps
\* running until it returns or raises
SpecPGDFair == InitPGDOneInput /\ [][PgdNext]_vars /\ WF_vars(PgdNext)

NetNext == NetEnter \/ PerturbEnter \/ Step \/ Return \/ NetResume \/ NetRaise

InitNet == NetInit /\ ConvParked

SpecNet == InitNet /\ [][NetNext]_vars

(***************************************************************************)
(* Properties of the convolution                                           *)
(***************************************************************************)
BatchN == input_feats.dims[1]
ChanIn == input_feats.dims[2]
Height == input_feats.dims[3]
Width == input_feats.dims[4]
ChanOut == weight.dims[1]
KSize == weight.dims[3]

\* the preconditions of a forward call, as the specification lists them
ConfigOk ==
  /\ stride.is_int /\ stride.val >= 1
  /\ padding.is_int /\ padding.val >= 0
  /\ weight.dims[3] = weight.dims[4]
  /\ ChanIn = weight.dims[2]
  /\ KSize <= Height + 2 * padding.val
  /\ KSize <= Width + 2 * padding.val

RefHout == ((Height + 2 * padding.val - KSize) \div stride.val) + 1
RefWout == ((Width + 2 * padding.val - KSize) \div stride.val) + 1

\* the zero-padded input at input coordinates (y, x)
RefPadded(n, c, y, x) ==
  IF 0 <= y /\ y < Height /\ 0 <= x /\ x < Width THEN input_feats.at[n, c, y, x] ELSE 0

\* brute-force convolution: bias + sum over (ci, kh, kw)
RefConv(n, co, i, j) ==
  bias.at[co] +
  SumTo([q \in Idx(ChanIn * KSize * KSize) |->
           LET ci == q \div (KSize * KSize)
               kh == (q % (KSize * KSize)) \div KSize
               kw == q % KSize
           IN weight.at[co, ci, kh, kw] *
              RefPadded(n, ci, i * stride.val + kh - padding.val,
                        j * stride.val + kw - padding.val)],
        ChanIn * KSize * KSize)

\* C3: for every valid call with a bias, forward returns, and its output equals
\* the brute-force convolution element by element.
C3_ForwardEqualsBruteForce ==
  (ConfigOk /\ ~bias.none /\ conv_pc # "ready") =>
    /\ conv_pc \in {"forwarded", "backwarded"}
    /\ output.dims = <<BatchN, ChanOut, RefHout, RefWout>>
    /\ \A n \in Idx(BatchN), co \in Idx(ChanOut), i \in Idx(RefHout), j \in Idx(RefWout) :
         output.at[n, co, i, j] = RefConv(n, co, i, j)

C3_Witness ==
  /\ conv_pc = "forwarded"
  /\ stride.val = 2 /\ padding.val = 1 /\ KSize = 2
  /\ BatchN = 2 /\ ChanIn = 2 /\ ChanOut = 2 /\ Height = 2 /\ Width = 1
  /\ \E n \in Idx(BatchN), co \in Idx(ChanOut), i \in Idx(RefHout), j \in Idx(RefWout) :
       output.at[n, co, i, j] # bias.at[co]

\* C4: for every valid call the size the code computes is floor((H+2p-K)/s)+1
\* in each dimension and equals the number L of patch columns, so the fold with
\* kernel 1 succeeds and only reshapes; an output that is returned has that size.
C4_OutputSize ==
  (ConfigOk /\ conv_pc # "ready") =>
    /\ "fold" \in performed
    /\ OutputShape(Height, Width, KSize, padding.val, stride.val) = <<RefHout, RefWout>>
    /\ conv_pc \in {"forwarded", "backwarded"} =>
         /\ output.dims[3] = RefHout
         /\ output.dims[4] = RefWout
         /\ ctx.unfolded_feats.dims[3] = output.dims[3] * output.dims[4]
         /\ LET m == MatMulBroadcast(Flatten1(weight), ctx.unfolded_feats)
            IN \A n \in Idx(BatchN), co \in Idx(ChanOut), i \in Idx(RefHout), j \in Idx(RefWout) :
                 output.at[n, co, i, j] = m.at[n, co, i * RefWout + j] + bias.at[co]

C4_Witness ==
  /\ conv_pc = "forwarded"
  /\ stride.val = 2
  /\ (Height + 2 * padding.val - KSize) % 2 = 1
  /\ Height # Width
  /\ output.dims[3] # output.dims[4]

\* the adjoint of the convolution at input element (n, ci, y, x)
RefGradInput(n, ci, y, x) ==
  SumTo([q \in Idx(ChanOut * RefHout * RefWout * KSize * KSize) |->
           LET kw == q % KSize
               kh == (q \div KSize) % KSize
               j == (q \div (KSize * KSize)) % RefWout
               i == (q \div (KSize * KSize * RefWout)) % RefHout
               co == q \div (KSize * KSize * RefWout * RefHout)
           IN IF /\ i * stride.val + kh - padding.val = y
                 /\ j * stride.val + kw - padding.val = x
              THEN weight.at[co, ci, kh, kw] * grad_output.at[n, co, i, j]
              ELSE 0],
        ChanOut * RefHout * RefWout * KSize * KSize)

\* C7: grad_input has the input's shape and is the adjoint of the forward
\* convolution, overlapping contributions summed.
C7_GradInputIsAdjoint ==
  conv_pc = "backwarded" =>
    /\ grads.grad_input.dims = <<BatchN, ChanIn, Height, Width>>
    /\ \A n \in Idx(BatchN), ci \in Idx(ChanIn), y \in Idx(Height), x \in Idx(Width) :
         grads.grad_input.at[n, ci, y, x] = RefGradInput(n, ci, y, x)

C7_Witness ==
  /\ conv_pc = "backwarded"
  /\ stride.val = 1 /\ KSize = 2 /\ padding.val = 1
  /\ Height = 3 /\ Width = 2 /\ ChanOut = 1
  /\ \E n \in Idx(BatchN), ci \in Idx(ChanIn) : grads.grad_input.at[n, ci, 1, 1] # 0

\* the batch-summed cross-correlation of grad_output with the input patches
RefGradWeight(co, ci, kh, kw) ==
  SumTo([q \in Idx(BatchN * RefHout * RefWout) |->
           LET j == q % RefWout
               i == (q \div RefWout) % RefHout
               n == q \div (RefWout * RefHout)
           IN grad_output.at[n, co, i, j] *
              RefPadded(n, ci, i * stride.val + kh - padding.val,
                        j * stride.val + kw - padding.val)],
        BatchN * RefHout * RefWout)

\* C8: grad_weight has the weight's shape and is the batch-summed
\* cross-correlation of grad_output with the saved input patches.
C8_GradWeightIsCrossCorrelation ==
  conv_pc = "backwarded" =>
    /\ grads.grad_weight.dims = <<ChanOut, ChanIn, KSize, KSize>>
    /\ \A co \in Idx(ChanOut), ci \in Idx(ChanIn), kh \in Idx(KSize), kw \in Idx(KSize) :
         grads.grad_weight.at[co, ci, kh, kw] = RefGradWeight(co, ci, kh, kw)

C8_Witness ==
  /\ conv_pc = "backwarded"
  /\ BatchN = 2 /\ KSize = 2 /\ ChanIn = 2 /\ ChanOut = 2 /\ stride.val = 2 /\ padding.val = 1
  /\ \E co \in Idx(ChanOut), ci \in Idx(ChanIn) :
       grads.grad_weight.at[co, ci, 0, 1] # grads.grad_weight.at[co, ci, 1, 0]

\* C2 (as claimed): a valid call without a bias succeeds in forward, and its
\* backward returns no bias gradient.
C2_BiasAbsentSucceeds ==
  (ConfigOk /\ bias.none /\ conv_pc # "ready") =>
    /\ conv_pc \in {"forwarded", "backwarded"}
    /\ conv_pc = "backwarded" => grads.grad_bias.none

\* C9 (as claimed): a configuration error fails the call before any
\* computation and before anything is stored on the context.
C9_ConfigErrorLeavesNothing ==
  (~ConfigOk /\ conv_pc # "ready") =>
    /\ conv_pc = "failed"
    /\ conv_err = "AssertionError"
    /\ performed = {}
    /\ output = NoTensor
    /\ ctx = EmptyCtx

\* C9 (amended): a configuration error fails the call with an assertion error
\* before any tensor operation; no output and no saved tensors exist; only when
\* the sole error is a kernel larger than the padded input have the scalar
\* conv params already been stored on the context.
C9_ConfigErrorEager ==
  (~ConfigOk /\ conv_pc # "ready") =>
    /\ conv_pc = "failed"
    /\ conv_err = "AssertionError"
    /\ performed = {}
    /\ output = NoTensor
    /\ ~ctx.saved
    /\ ctx.unfolded_feats = NoTensor /\ ctx.weight = NoTensor /\ ctx.bias = NoneBias
    /\ IF SanityOk(input_feats, weight, stride, padding)
       THEN ctx = SaveParams(EmptyCtx, input_feats, stride, padding)
       ELSE ctx = EmptyCtx

C9_Witness ==
  /\ conv_pc = "failed"
  /\ conv_err = "AssertionError"
  /\ KSize > Width + 2 * padding.val
  /\ ctx.attrs # {}

(***************************************************************************)
(* Properties of the perturbation loop                                     *)
(***************************************************************************)
Abs(v) == IF v < 0 THEN -v ELSE v

\* C1: for epsilon >= 0 every element of the candidate stays within epsilon of
\* the original, from its creation on, after every step and at return.
C1_WithinEpsilonBall ==
  (pgd_pc \in {"loop", "done", "error"} /\ epsilon >= 0) =>
    \A e \in Elems : Abs(x_adv[e] - input[e]) <= epsilon

C1_Witness ==
  /\ pgd_pc = "done"
  /\ steps_done = 2
  /\ step_size = 2 /\ epsilon = 1
  /\ x_adv[0] = input[0] + epsilon
  /\ x_adv[1] = input[1] - epsilon

\* C5 (as claimed): the candidate perturb returns does not require grad.
C5_ReturnedNotTracked ==
  pgd_pc = "done" => ~x_adv_requires_grad

\* C6: with num_steps = 0 perturb returns a candidate equal to the original
\* input in every element and never evaluates the model.
C6_ZeroStepsReturnsInput ==
  (num_steps = 0 /\ pgd_pc \in {"loop", "done"}) =>
    /\ model_evals = 0
    /\ pgd_pc = "done" => \A e \in Elems : x_adv[e] = input[e]

C6_Witness ==
  /\ pgd_pc = "done"
  /\ num_steps = 0
  /\ input[0] = 1 /\ input[1] = 0
  /\ x_adv[0] = 1

\* C10: a step raises an error exactly when backward left no gradient on the
\* candidate; an all-zero gradient raises none, and the loop goes on with the
\* candidate unchanged.
C10_ErrorIffNoGradient ==
  [][(pgd_pc = "loop" /\ steps_done' = steps_done + 1) =>
       /\ (pgd_pc' = "error") <=> last_grad'.none
       /\ (~last_grad'.none /\ \A e \in Elems : last_grad'.at[e] = 0) =>
            (pgd_pc' = "loop" /\ pgd_err' = "" /\ x_adv' = x_adv)]_vars

C10_Witness ==
  /\ pgd_pc = "loop"
  /\ steps_done = 2 /\ num_steps = 3
  /\ ~last_grad.none /\ \A e \in Elems : last_grad.at[e] = 0
  /\ x_adv[0] # input[0]

\* C11 (as claimed): no step of perturb changes the caller's input, neither its
\* values nor its autograd attributes, and the candidate never shares its
\* storage with it.
C11_InputNeverMutated ==
  [][/\ input' = input
     /\ input_autograd' = input_autograd
     /\ ~x_adv_shares_input']_vars

\* C12 (as claimed): perturb never changes the parameter values, and when it
\* returns after at least one step the parameters' gradient buffers hold no
\* gradient of the call's own backward passes.
C12_NoGradientSurvives ==
  /\ model.params = "theta"
  /\ (pgd_pc = "done" /\ num_steps >= 1) => model.param_grad # "attack"

\* one element after one step from xe with gradient ge: the signed step, then
\* the projection onto [oe - epsilon, oe + epsilon]
RefStep(xe, ge, oe) ==
  LET moved == xe + (IF ge > 0 THEN step_size ELSE IF ge < 0 THEN -step_size ELSE 0)
  IN IF moved < oe - epsilon THEN oe - epsilon
     ELSE IF moved > oe + epsilon THEN oe + epsilon
     ELSE moved

C13_Counts ==
  /\ steps_done <= num_steps
  /\ model_evals = steps_done
  /\ pgd_pc = "done" => (model_evals = num_steps /\ pgd_err = "")

C13_Sequence ==
  /\ pgd_pc' # pgd_pc =>
       <<pgd_pc, pgd_pc'>> \in {<<"call", "loop">>, <<"call", "error">>,
                                <<"loop", "done">>, <<"loop", "error">>}
  /\ (pgd_pc = "loop" /\ pgd_pc' = "loop") =>
       /\ steps_done' = steps_done + 1
       /\ ~backward_grad'.none
       /\ \A e \in Elems : x_adv'[e] = RefStep(x_adv[e], backward_grad'.at[e], input[e])
  /\ pgd_pc' = "done" => (steps_done = num_steps /\ x_adv' = x_adv)

\* C13: perturb runs Init, then num_steps steps in sequence, then Done: the
\* model is evaluated once per step, each step starts from the candidate of the
\* step before and uses only the gradient computed at that candidate, and a
\* call without a gradient-path error ends in Done with the last candidate
\* after exactly num_steps evaluations.
C13_StateMachine ==
  /\ []C13_Counts
  /\ [][C13_Sequence]_vars
  /\ <>(pgd_pc \in {"done", "error"})

C13_Witness ==
  /\ pgd_pc = "done"
  /\ num_steps = 3 /\ model_evals = 3
  /\ step_size = 1 /\ epsilon = 2
  /\ x_adv[0] = input[0] + 1
  /\ backward_grad.at[0] < 0

\* the gradient of unit magnitude that has the signs of g, element by element
UnitGrad(g) ==
  [none |-> FALSE,
   at |-> [e \in Elems |-> IF g.at[e] > 0 THEN 1 ELSE IF g.at[e] < 0 THEN -1 ELSE 0]]

\* C14 (as claimed): every Step displaces each element of the candidate by
\* exactly step_size in absolute value.
C14_ExactDisplacement ==
  [][(pgd_pc = "loop" /\ pgd_pc' = "loop") =>
       \A e \in Elems : Abs(x_adv'[e] - x_adv[e]) = Abs(step_size)]_vars

\* C14 (amended): every Step displaces each element by at most |step_size|: by
\* nothing where the gradient component is zero, by exactly |step_size| in the
\* direction of step_size * sign(gradient) where the component is nonzero and
\* the stepped value stays within epsilon of the input, and by less only where
\* the projection cuts the step short; the result is the one the gradient of
\* unit magnitude with the same signs gives.
C14_DisplacementBySign ==
  [][(pgd_pc = "loop" /\ pgd_pc' = "loop") =>
       /\ \A e \in Elems :
            LET d == x_adv'[e] - x_adv[e]
                g == backward_grad'.at[e]
                s == IF g > 0 THEN step_size ELSE IF g < 0 THEN -step_size ELSE 0
            IN /\ Abs(d) <= Abs(step_size)
               /\ g = 0 => d = 0
               /\ (g # 0 /\ Abs(x_adv[e] + s - input[e]) <= epsilon) => d = s
               /\ Abs(d) < Abs(s) => Abs(x_adv'[e] - input[e]) = epsilon
       /\ Update(x_adv, UnitGrad(backward_grad'), input, step_size, epsilon) = x_adv']_vars

C14_Witness ==
  /\ pgd_pc = "loop"
  /\ steps_done = 2
  /\ step_size = 1 /\ epsilon = 1
  /\ backward_grad.at[0] = MaxGrad /\ backward_grad.at[1] = 0
  /\ x_adv[0] = input[0] + 1
  /\ x_adv[1] = input[1] - 1

\* C15: forward called in training mode switches to evaluation mode, perturb
\* then runs with the model in evaluation mode at every one of its model
\* evaluations, so no forward call it makes starts an attack of its own, and
\* training mode is back before forward computes its output; called in
\* evaluation mode forward runs no attack; after a normal return the training
\* flag is the one forward was called with.
C15_AttackOnlyAtDepthOne ==
  /\ nested_attacks = 0
  /\ net_pc = "attack" => (training_at_call /\ ~model.training)
  /\ ~training_at_call => (pgd_pc = "parked" /\ model_evals = 0)
  /\ net_pc = "returned" =>
       /\ model.training = training_at_call
       /\ output_mode = training_at_call
       /\ training_at_call => (pgd_pc = "done" /\ model_evals = num_steps /\ net_x = x_adv)
       /\ ~training_at_call => net_x = input

C15_Witness ==
  /\ net_pc = "returned"
  /\ training_at_call
  /\ model.training
  /\ model_evals = AttackNumSteps
  /\ net_x # input

====
